---- MODULE Spec2Model ----
(***************************************************************************)
(* Fine-tuning orchestration of the NPC dialogue guidance:                 *)
(*   - the Callback Router   (components/tuning_workflow/runtime/index.py) *)
(*   - the tuning workflow   (components/tuning_workflow/__init__.py),     *)
(*     a Step Functions state machine                                      *)
(*   - the tuner handler     (components/fine_tuner/runtime/index.py):     *)
(*     Job Submitter, Status Poller and Callback Finalizer                 *)
(*   - the text and RAG API handlers (components/text_api, rag_api)        *)
(*   - the model-approval handler (components/fmops_pipeline/event)        *)
(* together with the two external services they call: the model            *)
(* customization provider (jobs) and the pipeline callback API (tokens).   *)
(***************************************************************************)
EXTENDS Integers, Sequences, FiniteSets, TLC

VARIABLES
    router,      \* the current (or the last) invocation of the Callback Router
    deliveries,  \* number of router invocations made so far
    execs,       \* the state machine executions, in start order
    jobs,        \* the provider's customization jobs, by job name
    callbacks,   \* every call made to the pipeline callback API
    api,         \* the last request each of the two HTTP APIs has answered
    approval     \* the invocation of the model-approval handler

vars == <<router, deliveries, execs, jobs, callbacks, api, approval>>

----------------------------------------------------------------------------
(* Bounds of the model *)

MaxDeliveries == 1      \* router invocations
MaxBatch == 2           \* records per router invocation
MaxExecutions == 1      \* state machine executions
MaxRequests == 2        \* deliveries of the requests of one pipeline execution
MaxInstances == 2       \* executions that run side by side
MaxApprovals == 2       \* invocations of the model-approval handler

----------------------------------------------------------------------------
(* Values *)

PyNone == [py |-> "None"]          \* Python None / JSON null
Absent == "<absent>"               \* a key that a dict does not hold

ExecutionIds == {"e1", "e2"}

\* The callback token of the pipeline step that waits on execution id eid.
TokenOf(eid) == "token-" \o eid

Tokens == {TokenOf(e) : e \in ExecutionIds}

Arguments(eid) ==
    [JOB_PREFIX |-> "npc", EXECUTION_ID |-> eid, BASE_MODEL |-> "base",
     TRAIN_DATA |-> "s3://train", VALIDATION_DATA |-> "s3://val",
     DATA_BUCKET |-> "bucket", EPOCHS |-> "1", BATCH_SIZE |-> "1",
     LEARNING_RATE |-> "0.1", WARMUP_STEPS |-> "0"]

ArgumentSet == {Arguments(e) : e \in ExecutionIds}

\* The messages the queue delivers, each any number of times: the Start
\* request and the Stopping signal of every pipeline execution.
Messages ==
    {[status |-> s, arguments |-> Arguments(e), token |-> TokenOf(e)] :
        s \in {"Start", "Stopping"}, e \in ExecutionIds}

Batches == UNION {[1..n -> Messages] : n \in 1..MaxBatch}

\* The requests one pipeline execution can put on the queue, each delivered
\* alone: its Start request, as sent or resubmitted with another epoch count,
\* and the same without the "status" key.
RequestArguments == {[Arguments("e1") EXCEPT !.EPOCHS = n] : n \in {"1", "2"}}

RequestMessages ==
    {[status |-> "Start", arguments |-> a, token |-> TokenOf("e1")] :
        a \in RequestArguments}
    \cup {[arguments |-> a, token |-> TokenOf("e1")] : a \in RequestArguments}

RequestBatches == {<<m>> : m \in RequestMessages}

\* The messages of all pipeline executions, each delivered alone.
SingleBatches == {<<m>> : m \in Messages}

AllArguments == ArgumentSet \cup RequestArguments

\* Raw states the provider reports. "InService" stands for any raw state
\* that is neither terminal nor the literal "InProgress".
NonTerminalRaw == {"InProgress", "InService"}
TerminalRaw == {"Completed", "Failed", "Stopped", "Stopping"}

BEDROCK_ROLE == "role"
AWS_DEFAULT_REGION == "us-east-1"
ProviderFailureMessage == "provider failure message"

----------------------------------------------------------------------------
(* Python dict helpers *)

SetKey(d, k, v) == [x \in (DOMAIN d) \cup {k} |-> IF x = k THEN v ELSE d[x]]
HasKey(d, k) == k \in DOMAIN d

\* d.get(k): the value of the key, or None (written "None") without it.
Get(d, k) == IF HasKey(d, k) THEN d[k] ELSE "None"

----------------------------------------------------------------------------
(* fine_tuner/runtime/index.py: pure parts *)

\* JobName without the execution id.
JobNameDropsId(params) == params.JOB_PREFIX \o "-TuningJob-"

\* JobName with the epoch count appended.
JobNameWithEpochs(params) ==
    params.JOB_PREFIX \o "-TuningJob-" \o params.EXECUTION_ID
        \o "-" \o params.EPOCHS

\* start_fine_tuning, line 53: the name of the job.
JobName(params) == params.JOB_PREFIX \o "-TuningJob-" \o params.EXECUTION_ID

\* The keyword arguments of create_model_customization_job.
CreateRequest(params) ==
    [jobName |-> JobName(params),
     customModelName |-> params.JOB_PREFIX \o "-" \o params.EXECUTION_ID,
     roleArn |-> BEDROCK_ROLE,
     baseModelIdentifier |-> "arn:aws:bedrock:" \o AWS_DEFAULT_REGION
                              \o "::foundation-model/" \o params.BASE_MODEL,
     trainingS3Uri |-> params.TRAIN_DATA \o "/data.jsonl",
     validationS3Uri |-> params.VALIDATION_DATA \o "/data.jsonl",
     outputS3Uri |-> "s3://" \o params.DATA_BUCKET \o "/" \o params.EXECUTION_ID]

\* StartResult that also blanks the token.
StartResultClearsToken(event, job_name, job_arn) ==
    SetKey(SetKey(SetKey(SetKey(event, "jobName", job_name),
                         "jobArn", job_arn), "status", "InProgress"),
           "token", "")

\* StartResult without line 35: the status is left as it was.
StartResultKeepsStatus(event, job_name, job_arn) ==
    SetKey(SetKey(event, "jobName", job_name), "jobArn", job_arn)

\* lambda_handler, status == "Start": the event returned after submission.
StartResult(event, job_name, job_arn) ==
    SetKey(SetKey(SetKey(event, "jobName", job_name), "jobArn", job_arn),
           "status", "InProgress")

\* check_status reporting Completed for every raw state that is no failure.
CheckStatusEager(raw) ==
    IF raw \in {"Failed", "Stopped", "Stopping"} THEN "Failed" ELSE "Completed"

\* check_status taking "Stopped" for a completed job.
CheckStatusStoppedCompleted(raw) ==
    IF raw \in {"Failed", "Stopping"} THEN "Failed"
    ELSE IF raw = "Stopped" THEN "Completed" ELSE raw

\* check_status: the classification of the provider's raw state.
check_status(raw) ==
    IF raw \in {"Failed", "Stopped", "Stopping"} THEN "Failed" ELSE raw

\* HandlerBranch that polls for every status it does not know.
HandlerBranchPollsUnknown(event) ==
    IF ~HasKey(event, "status") THEN "KeyError"
    ELSE IF event.status = "Start" THEN "start"
    ELSE IF event.status = "Completed" \/ event.status = "Failed" THEN "finalize"
    ELSE "check"

\* lambda_handler: which branch an event takes.
HandlerBranch(event) ==
    IF ~HasKey(event, "status") THEN "KeyError"
    ELSE IF event.status = "Start" THEN "start"
    ELSE IF event.status = "InProgress" THEN "check"
    ELSE IF event.status = "Completed" \/ event.status = "Failed" THEN "finalize"
    ELSE "none"

\* OutputParameters with the values of JOB_NAME and JOB_ARN exchanged.
OutputParametersSwapped(resp) ==
    << [Name |-> "OUTPUT_MODEL_NAME", Value |-> resp.outputModelName],
       [Name |-> "OUTPUT_MODEL_ARN", Value |-> resp.outputModelArn],
       [Name |-> "JOB_NAME", Value |-> resp.jobArn],
       [Name |-> "JOB_ARN", Value |-> resp.jobName],
       [Name |-> "BASE_MODEL_ARN", Value |-> resp.baseModelArn],
       [Name |-> "OUTPUT_DATA", Value |-> resp.outputS3Uri] >>

\* finalize, success path: OutputParameters of the success callback.
OutputParameters(resp) ==
    << [Name |-> "OUTPUT_MODEL_NAME", Value |-> resp.outputModelName],
       [Name |-> "OUTPUT_MODEL_ARN", Value |-> resp.outputModelArn],
       [Name |-> "JOB_NAME", Value |-> resp.jobName],
       [Name |-> "JOB_ARN", Value |-> resp.jobArn],
       [Name |-> "BASE_MODEL_ARN", Value |-> resp.baseModelArn],
       [Name |-> "OUTPUT_DATA", Value |-> resp.outputS3Uri] >>

ManualStopMessage == "Model customization has been manually stopped"

\* FailureReason testing for the transient state instead of "Stopped".
FailureReasonWrongState(resp) ==
    IF resp.status = "Stopping" THEN ManualStopMessage ELSE resp.failureMessage

\* finalize, failure path: the failure reason, or Absent when the lookup of
\* "failureMessage" raises KeyError.
FailureReason(resp) ==
    IF resp.status = "Stopped" THEN ManualStopMessage ELSE resp.failureMessage

----------------------------------------------------------------------------
(* The provider: customization jobs *)

NoJob == [status |-> "NoJob"]

JobNames == {JobName(a) : a \in AllArguments}

JobArn(job_name) == "arn:job/" \o job_name

NewJob(req) ==
    [status |-> "InProgress", jobName |-> req.jobName,
     jobArn |-> JobArn(req.jobName),
     outputModelName |-> req.customModelName,
     outputModelArn |-> "arn:model/" \o req.customModelName,
     baseModelArn |-> req.baseModelIdentifier,
     outputS3Uri |-> req.outputS3Uri]

\* The raw states a job can move to next.
NextRaw(raw) ==
    CASE raw = "InProgress" -> {"InService", "Completed", "Failed", "Stopping"}
      [] raw = "InService" -> {"InProgress", "Completed", "Failed", "Stopping"}
      [] raw = "Stopping" -> {"Stopped"}
      [] OTHER -> {}

\* failureMessage is an optional field of the job description: the provider
\* sets it for a failed job and may omit it otherwise.
FailureMessages(raw) ==
    IF raw = "Failed" THEN {ProviderFailureMessage}
    ELSE {ProviderFailureMessage, Absent}

\* get_model_customization_job: one possible response for a job.
GetResponses(job) ==
    {SetKey(job, "failureMessage", m) : m \in FailureMessages(job.status)}

----------------------------------------------------------------------------
(* The callback API: tokens are single-use, enforced by the API *)

\* cbs: the calls made so far. A token is consumed by the first call on it.
Consumed(cbs, t) == \E c \in cbs : c.token = t /\ c.accepted

\* The record of one call, made by `by`; the API accepts it unless the token
\* is consumed, and answers a rejected call with a ClientError.
Callback(cbs, by, token, kind, reason, outputs) ==
    [by |-> by, token |-> token, kind |-> kind, reason |-> reason,
     outputs |-> outputs, accepted |-> ~Consumed(cbs, token)]

----------------------------------------------------------------------------
(* text_api/runtime/index.py and rag_api/runtime/index.py: the handlers of  *)
(* the two HTTP APIs. A call returns Returned(value) or raises: Raised(e).  *)

Returned(v) == [value |-> v]
Raised(e) == [raised |-> e]
IsRaised(r) == HasKey(r, "raised")

Questions == {"q1", "q2"}

\* The parsed JSON bodies of the POST requests: with a question and without.
Bodies == {[question |-> q] : q \in Questions} \cup {[prompt |-> "q1"]}

Completions == {"answer-a", "answer-b"}

\* get_hits: the number of hits asked of the search.
TopK == 3

\* What the services answer during one request: get_secret_value, the HEAD
\* request on the index, invoke_model of the embedding model, the number of
\* hits of the search, and invoke_model of the text model (a completion).
TextOutcomes == [model : Completions \cup {"ClientError"}]

RagOutcomes ==
    [secret : {"ok", "ClientError"}, index : {200, 404},
     embedding : {"ok", "ClientError"}, hits : 0..TopK,
     model : Completions \cup {"ClientError"}]

build_response(body) ==
    [statusCode |-> 200,
     headers |-> [ContentType |-> "application/json"],
     body |-> body]

\* validate_inputs: an error response for a body without "question", else
\* None. The two handlers differ in the message.
validate_inputs(body, message) ==
    IF ~HasKey(body, "question")
    THEN build_response([status |-> "error", message |-> message])
    ELSE PyNone

\* invoke_model of the text model and the completion read from its answer.
InvokeTextModel(outcome) ==
    IF outcome = "ClientError" THEN Raised("ClientError")
    ELSE Returned(outcome)

\* lambda_handler of both APIs, given the body and the result of
\* get_prediction.
ApiHandler(body, message, prediction) ==
    LET validate_response == validate_inputs(body, message) IN
    IF validate_response # PyNone THEN Returned(validate_response)
    ELSE IF IsRaised(prediction) THEN prediction
    ELSE Returned(build_response([response |-> prediction.value]))

TextHandler(body, out) ==
    ApiHandler(body, "question missing in payload",
               InvokeTextModel(out.model))

NotHydratedMessage ==
    "The vector store is not yet hydrated, and cannot be queried for context. Please contact your System Administrator to ingest RAG data."

\* get_credentials: the pair of the secret, or an error response returned
\* in its place for a ClientError.
get_credentials(secret) ==
    IF secret = "ok" THEN <<"USERNAME", "PASSWORD">>
    ELSE build_response([status |-> "error", message |-> "ClientError"])

\* username, password = value: ValueError unless value has two items.
UnpacksToTwo(value) == Cardinality(DOMAIN value) = 2

verify_index(status) ==
    IF status # 200
    THEN build_response([status |-> "error", message |-> NotHydratedMessage])
    ELSE PyNone

\* get_embedding: the embedding, or an error response returned in its place
\* for a ClientError.
get_embedding(embedding) ==
    IF embedding = "ok" THEN [floats |-> "embedding"]
    ELSE build_response([status |-> "error", message |-> "ClientError"])

\* The search service: n hits for a query whose vector is an embedding, and
\* an error body without "hits" for any other query.
SearchResponse(vector, n) ==
    IF HasKey(vector, "floats")
    THEN [hits |-> [hits |-> [h \in 1..n |->
                       [source |-> [passage |-> "passage"]]]]]
    ELSE [error |-> "parsing_exception", status |-> "400"]

\* get_prediction of the RAG API.
RagPrediction(out) ==
    IF ~UnpacksToTwo(get_credentials(out.secret)) THEN Raised("ValueError")
    ELSE IF verify_index(out.index) # PyNone
    THEN Returned(verify_index(out.index))
    ELSE LET response == SearchResponse(get_embedding(out.embedding),
                                        out.hits)
         IN  IF ~HasKey(response, "hits") THEN Raised("KeyError")
             ELSE IF Len(response.hits.hits) = 0 THEN Raised("IndexError")
             ELSE InvokeTextModel(out.model)

RagHandler(body, out) ==
    ApiHandler(body, "question missing in request payload",
               RagPrediction(out))

\* API Gateway, Lambda proxy integration: the status code of the handler's
\* response, and 502 for an invocation that raised.
HttpStatus(result) ==
    IF IsRaised(result) THEN 502 ELSE result.value.statusCode

NoRequest == [request |-> PyNone]

----------------------------------------------------------------------------
(* fmops_pipeline/event/index.py: the model-approval handler *)

CustomModels == {"m1", "m2"}

ModelArn(m) == "arn:custom-model/" \o m
ProvisionedModelArn(m) == "arn:provisioned-model/" \o m

\* The approval events: the approved model's name.
ApprovalEvents ==
    {[detail |-> [CustomerMetadataProperties |-> [ModelName |-> m]]] :
        m \in CustomModels}

\* The answers of list_custom_models: modelSummaries, or a ClientError.
CustomModelAnswers ==
    {<<>>} \cup {<<[modelArn |-> ModelArn(m)]>> : m \in CustomModels}

\* The answers of list_provisioned_model_throughputs:
\* provisionedModelSummaries, newest first.
ProvisionedSummary(m) ==
    [modelArn |-> ModelArn(m), provisionedModelArn |-> ProvisionedModelArn(m)]

ProvisionedAnswers ==
    {<<>>} \cup {<<ProvisionedSummary(m)>> : m \in CustomModels}
    \cup {<<ProvisionedSummary(p[1]), ProvisionedSummary(p[2])>> :
            p \in {q \in CustomModels \X CustomModels : q[1] # q[2]}}

\* get_model_arn, lines 58-60: the ARN of the first provisioned model of the
\* custom model, None ("None") when the loop ends without one, IndexError
\* when the loop runs over no custom model.
MatchProvisioned(custom, provisioned) ==
    IF provisioned = <<>> THEN Returned("None")
    ELSE IF custom = <<>> THEN Raised("IndexError")
    ELSE LET hits == {x \in DOMAIN provisioned :
                         provisioned[x].modelArn = custom[1].modelArn}
         IN  IF hits = {} THEN Returned("None")
             ELSE Returned(provisioned[
                      CHOOSE x \in hits : \A y \in hits : x <= y
                  ].provisionedModelArn)

InitialParameter == "PLACEHOLDER"

\* NextPc that goes on to the next step whether or not the step raised.
NextPcIgnoresErrors(pc, raised) ==
    CASE pc = "resolve" -> "update"
      [] pc = "update" -> "start"
      [] pc = "start" -> "returned"

\* lambda_handler, lines 26-41: the step after the step pc, which raised an
\* exception or did not. Nothing in the handler catches an exception.
NextPc(pc, raised) ==
    IF raised THEN "raised"
    ELSE CASE pc = "resolve" -> "update"
           [] pc = "update" -> "start"
           [] pc = "start" -> "returned"

\* pc: the step the handler is at; custom_model, provisioned_models and
\* model_id: the handler's variables of these names; calls: the service calls it has made, each
\* with its success; parameter: the model parameter in the parameter store;
\* pipeline: the pipeline executions started, each with the value the
\* parameter had then; invocations: the invocations so far.
NoApproval ==
    [pc |-> "idle", invocations |-> 0, event |-> PyNone, custom_model |-> PyNone,
     provisioned_models |-> PyNone, model_id |-> "None", calls |-> <<>>,
     failed |-> "none", parameter |-> InitialParameter, pipeline |-> <<>>,
     result |-> PyNone]

ServiceCall(name, ok) == [api |-> name, ok |-> ok]

----------------------------------------------------------------------------
(* State machine executions *)

ExecutionArn(i) == <<"execution", i>>

\* state: the state the execution is in, or SUCCEEDED / FAILED once it ended;
\* payload: the input of that state ($ for the first state, $.Payload after).
\* input, handle, lastRaw and error record what happened, for the properties:
\* the execution input, the name of the job its submission created, the raw
\* state its last poll read, and the call or lookup that failed it.
NewExecution(input) ==
    [state |-> "Start Fine-tuning", payload |-> input, input |-> input,
     handle |-> "none", lastRaw |-> "none", error |-> "none"]

Init ==
    /\ router = [pc |-> "idle", records |-> <<>>, calls |-> <<>>,
                 result |-> PyNone]
    /\ deliveries = 0
    /\ execs = <<>>
    /\ jobs = [n \in JobNames |-> NoJob]
    /\ callbacks = {}
    /\ api = [text |-> NoRequest, rag |-> NoRequest]
    /\ approval = NoApproval

----------------------------------------------------------------------------
(* tuning_workflow/runtime/index.py: the Callback Router *)

\* StartsExecution comparing with a status no message carries.
StartsExecutionAlways(payload) == Get(payload, "status") # "Stop"

\* The test of line 24: payload.get("status") != "Stopping".
StartsExecution(payload) == Get(payload, "status") # "Stopping"

StoppingReason == "Manual Stopping Behavior"

\* The input of start_execution built from a message.
ExecutionInput(payload) ==
    [status |-> "Start", parameters |-> payload.arguments,
     token |-> payload.token]

StartCall(k, payload, ok) ==
    [record |-> k, api |-> "start_execution",
     input |-> ExecutionInput(payload), ok |-> ok]

StopCall(k, cb) ==
    [record |-> k, api |-> "send_pipeline_execution_step_failure",
     input |-> [token |-> cb.token, reason |-> cb.reason], ok |-> cb.accepted]

\* The loop over event["Records"], from record k on. cbs are the calls the
\* callback API has seen, calls the API calls this invocation has made, and
\* startOk tells whether start_execution succeeds. A record that is not a
\* Stopping message ends the invocation: by the return inside the loop, or by
\* the exception raised for a ClientError. A Stopping record reports failure
\* on its token and, unless the call is rejected, goes on to the next record.
RECURSIVE RunRecords(_, _, _, _, _)
RunRecords(records, k, cbs, calls, startOk) ==
    IF k > Len(records)
    THEN [pc |-> "finished", cbs |-> cbs, calls |-> calls, started |-> <<>>]
    ELSE LET payload == records[k] IN
         IF StartsExecution(payload)
         THEN [pc |-> IF startOk THEN "returned" ELSE "raised",
               cbs |-> cbs,
               calls |-> Append(calls, StartCall(k, payload, startOk)),
               started |-> IF startOk THEN <<ExecutionInput(payload)>>
                           ELSE <<>>]
         ELSE LET cb == Callback(cbs, <<"router">>, payload.token, "failure",
                                 StoppingReason, <<>>)
              IN  IF cb.accepted
                  THEN RunRecords(records, k + 1, cbs \cup {cb},
                                  Append(calls, StopCall(k, cb)), startOk)
                  ELSE [pc |-> "raised", cbs |-> cbs \cup {cb},
                        calls |-> Append(calls, StopCall(k, cb)),
                        started |-> <<>>]

\* RouterJobs that stops the job of every Stopping record.
RouterStopsJobs(js, batch) ==
    [n \in DOMAIN js |->
        IF /\ js[n] # NoJob
           /\ js[n].status \in NonTerminalRaw
           /\ \E x \in DOMAIN batch :
                 /\ Get(batch[x], "status") = "Stopping"
                 /\ JobName(batch[x].arguments) = n
        THEN [js[n] EXCEPT !.status = "Stopping"]
        ELSE js[n]]

\* The provider's jobs after an invocation of the router on batch: the
\* router calls start_execution and the callback API only, never the
\* provider.
RouterJobs(js, batch) == js

\* One invocation of lambda_handler on a batch of queue records, one of
\* batches; at most maxDeliveries invocations are made and at most
\* maxExecutions executions started.
Deliver(batches, maxDeliveries, maxExecutions) ==
    /\ deliveries < maxDeliveries
    /\ \E batch \in batches, startOk \in BOOLEAN :
          LET r == RunRecords(batch, 1, callbacks, <<>>, startOk) IN
          /\ Len(execs) + Len(r.started) <= maxExecutions
          /\ router' = [pc |-> r.pc, records |-> batch, calls |-> r.calls,
                        result |-> IF r.pc = "returned"
                                   THEN [statusCode |-> 200,
                                         body |-> ExecutionArn(Len(execs) + 1)]
                                   ELSE PyNone]
          /\ callbacks' = r.cbs
          /\ execs' = IF r.started = <<>> THEN execs
                      ELSE Append(execs, NewExecution(r.started[1]))
          /\ jobs' = RouterJobs(jobs, batch)
    /\ deliveries' = deliveries + 1
    /\ UNCHANGED <<api, approval>>

\* The queue may deliver any message any number of times.
RouterInvoke == Deliver(Batches, MaxDeliveries, MaxExecutions)

\* The delivery of one request of the pipeline execution.
RequestInvoke == Deliver(RequestBatches, MaxRequests, MaxRequests)

----------------------------------------------------------------------------
(* tuning_workflow/__init__.py: the state machine, one action per state.   *)
(* A LambdaInvoke task runs lambda_handler on its payload; its result is   *)
(* the next state's $.Payload. An exception of the handler fails the       *)
(* execution: no state declares a Catch, and the default retry covers      *)
(* Lambda service errors only.                                             *)

InState(i, s) == i \in DOMAIN execs /\ execs[i].state = s

\* Fail with a Catch that sends the execution on to "Wait".
FailContinues(i, err) ==
    [execs EXCEPT ![i].state = "Wait", ![i].error = err]

\* Fail with the exception logged, not raised: the task and the execution
\* succeed.
FailSwallowed(i, err) ==
    [execs EXCEPT ![i].state = "SUCCEEDED", ![i].error = err]

\* Fail that fails every execution there is.
FailTogether(i, err) ==
    [j \in DOMAIN execs |->
        [execs[j] EXCEPT !.state = "FAILED", !.error = err]]

\* Fail with a Catch that sends the execution to "Tuning Failed" with the
\* status Failed and the name of some job.
FailToFailureStep(i, err) ==
    [execs EXCEPT ![i].state = "Tuning Failed", ![i].error = err,
                  ![i].payload = SetKey(SetKey(execs[i].payload,
                                               "status", "Failed"),
                                        "jobName", CHOOSE n \in JobNames : TRUE)]

\* An exception of the handler: the execution ends FAILED, with no retry.
Fail(i, err) == [execs EXCEPT ![i].state = "FAILED", ![i].error = err]

\* "Start Fine-tuning": lambda_handler on the execution input; the provider
\* accepts the job.
StartFineTuning(i) ==
    /\ InState(i, "Start Fine-tuning")
    /\ LET event == execs[i].payload
           req == CreateRequest(event.parameters)
       IN  /\ HandlerBranch(event) = "start"
           /\ jobs[req.jobName] = NoJob
           /\ jobs' = [jobs EXCEPT ![req.jobName] = NewJob(req)]
           /\ execs' = [execs EXCEPT
                 ![i].payload = StartResult(event, req.jobName,
                                            NewJob(req).jobArn),
                 ![i].handle = req.jobName,
                 ![i].state = "Wait"]
    /\ UNCHANGED <<router, deliveries, callbacks, api, approval>>

\* "Start Fine-tuning": the provider rejects the job (ClientError), whatever
\* the reason; a job of that name that exists is always rejected.
StartRejected(i) ==
    /\ InState(i, "Start Fine-tuning")
    /\ HandlerBranch(execs[i].payload) = "start"
    /\ execs' = Fail(i, "create_model_customization_job")
    /\ UNCHANGED <<router, deliveries, jobs, callbacks, api, approval>>

\* "Wait": ten minutes pass.
Wait(i) ==
    /\ InState(i, "Wait")
    /\ execs' = [execs EXCEPT ![i].state = "Get Tuning Status"]
    /\ UNCHANGED <<router, deliveries, jobs, callbacks, api, approval>>

\* "Get Tuning Status": lambda_handler on $.Payload. The payload comes from
\* "Start Fine-tuning" or from a poll the Choice sent back to "Wait", so its
\* status is InProgress (check_status) or one no branch handles (the handler
\* falls through and returns None).
GetTuningStatus(i) ==
    /\ InState(i, "Get Tuning Status")
    /\ LET event == execs[i].payload
           branch == HandlerBranch(event)
       IN  /\ branch \in {"check", "none"}
           /\ execs' =
                IF branch = "check"
                THEN LET raw == jobs[event.jobName].status IN
                     [execs EXCEPT
                        ![i].payload =
                            SetKey(event, "status", check_status(raw)),
                        ![i].lastRaw = raw,
                        ![i].state = "Review Status"]
                ELSE [execs EXCEPT ![i].payload = PyNone,
                                   ![i].state = "Review Status"]
    /\ UNCHANGED <<router, deliveries, jobs, callbacks, api, approval>>

\* "Get Tuning Status": get_model_customization_job raises ClientError.
PollError(i) ==
    /\ InState(i, "Get Tuning Status")
    /\ HandlerBranch(execs[i].payload) = "check"
    /\ execs' = Fail(i, "check_status:get_model_customization_job")
    /\ UNCHANGED <<router, deliveries, jobs, callbacks, api, approval>>

\* ReviewNext whose default branch goes straight back to the poll.
ReviewNextSkipsWait(payload) ==
    IF ~HasKey(payload, "status") THEN "FAILED"
    ELSE IF payload.status = "Completed" THEN "Tuning Complete"
    ELSE IF payload.status = "Failed" THEN "Tuning Failed"
    ELSE "Get Tuning Status"

\* "Review Status": the Choice on $.Payload.status.
ReviewNext(payload) ==
    IF ~HasKey(payload, "status") THEN "FAILED"
    ELSE IF payload.status = "Completed" THEN "Tuning Complete"
    ELSE IF payload.status = "Failed" THEN "Tuning Failed"
    ELSE "Wait"

ReviewStatus(i) ==
    /\ InState(i, "Review Status")
    /\ LET next == ReviewNext(execs[i].payload) IN
          execs' = IF next = "FAILED" THEN Fail(i, "States.Runtime")
                   ELSE [execs EXCEPT ![i].state = next]
    /\ UNCHANGED <<router, deliveries, jobs, callbacks, api, approval>>

\* AfterFinalize with the two final tasks chained back to "Wait".
AfterFinalizeWaits == "Wait"

\* "Tuning Complete" and "Tuning Failed" have no next state: the execution
\* succeeds when the task does.
AfterFinalize == "SUCCEEDED"

\* "Tuning Complete" and "Tuning Failed": lambda_handler on $.Payload, which
\* takes the finalize branch for a Completed or Failed status. finalize
\* re-fetches the job, then reports success or failure on the token; a rejected
\* report (ClientError) is raised as Exception, and a job description without
\* "failureMessage" raises KeyError before any report is made.
Finalize(i) ==
    /\ \/ InState(i, "Tuning Complete")
       \/ InState(i, "Tuning Failed")
    /\ LET event == execs[i].payload
           by == <<"execution", i>>
       IN
       /\ HandlerBranch(event) = "finalize"
       /\ \E resp \in GetResponses(jobs[event.jobName]) :
            LET cb == IF event.status = "Completed"
                      THEN Callback(callbacks, by, event.token, "success", "",
                                    OutputParameters(resp))
                      ELSE Callback(callbacks, by, event.token, "failure",
                                    FailureReason(resp), <<>>)
            IN  IF cb.kind = "failure" /\ cb.reason = Absent
                THEN /\ execs' = Fail(i, "KeyError:failureMessage")
                     /\ UNCHANGED callbacks
                ELSE /\ callbacks' = callbacks \cup {cb}
                     /\ execs' =
                          IF cb.accepted
                          THEN [execs EXCEPT ![i].state = AfterFinalize]
                          ELSE Fail(i, "send_pipeline_execution_step_"
                                       \o cb.kind)
    /\ UNCHANGED <<router, deliveries, jobs, api, approval>>

\* finalize: the re-fetch of the job details raises ClientError.
FinalizeFetchError(i) ==
    /\ \/ InState(i, "Tuning Complete")
       \/ InState(i, "Tuning Failed")
    /\ execs' = Fail(i, "finalize:get_model_customization_job")
    /\ UNCHANGED <<router, deliveries, jobs, callbacks, api, approval>>

\* One step of execution i, as the scheduler resumes it.
ExecutionStep(i) ==
    \/ StartFineTuning(i)
    \/ StartRejected(i)
    \/ Wait(i)
    \/ GetTuningStatus(i)
    \/ PollError(i)
    \/ ReviewStatus(i)
    \/ Finalize(i)
    \/ FinalizeFetchError(i)

----------------------------------------------------------------------------
(* The provider moves a job to its next raw state *)

JobAdvance(n) ==
    /\ jobs[n] # NoJob
    /\ \E raw \in NextRaw(jobs[n].status) :
          jobs' = [jobs EXCEPT ![n].status = raw]
    /\ UNCHANGED <<router, deliveries, execs, callbacks, api, approval>>

----------------------------------------------------------------------------
(* The two HTTP APIs answer a POST request *)

TextApiInvoke ==
    /\ \E body \in Bodies, out \in TextOutcomes :
          api' = [api EXCEPT !.text = [request |-> body, outcomes |-> out,
                                       result |-> TextHandler(body, out)]]
    /\ UNCHANGED <<router, deliveries, execs, jobs, callbacks, approval>>

RagApiInvoke ==
    /\ \E body \in Bodies, out \in RagOutcomes :
          api' = [api EXCEPT !.rag = [request |-> body, outcomes |-> out,
                                      result |-> RagHandler(body, out)]]
    /\ UNCHANGED <<router, deliveries, execs, jobs, callbacks, approval>>

ApiNext == TextApiInvoke \/ RagApiInvoke

ApiSpec == Init /\ [][ApiNext]_vars

----------------------------------------------------------------------------
(* The model-approval handler, one action per step of lambda_handler *)

WorkflowUnchanged == UNCHANGED <<router, deliveries, execs, jobs, callbacks, api>>

\* The event bus invokes the handler for an approved model package, once
\* the invocation before it has ended. The parameter and the pipeline's
\* executions outlive the invocation.
ApprovalInvoke ==
    /\ approval.pc \in {"idle", "returned", "raised"}
    /\ approval.invocations < MaxApprovals
    /\ \E event \in ApprovalEvents :
          approval' = [NoApproval EXCEPT
              !.pc = "resolve",
              !.event = event,
              !.invocations = approval.invocations + 1,
              !.parameter = approval.parameter,
              !.pipeline = approval.pipeline]
    /\ WorkflowUnchanged

\* get_model_arn: list_custom_models raises ClientError.
ResolveListModelsError ==
    /\ approval.pc = "resolve"
    /\ approval' = [approval EXCEPT
          !.calls = Append(@, ServiceCall("list_custom_models", FALSE)),
          !.failed = "resolve",
          !.pc = NextPc("resolve", TRUE)]
    /\ WorkflowUnchanged

\* get_model_arn: list_provisioned_model_throughputs raises ClientError.
ResolveListProvisionedError ==
    /\ approval.pc = "resolve"
    /\ \E custom \in CustomModelAnswers :
        approval' = [approval EXCEPT
          !.calls = @ \o <<ServiceCall("list_custom_models", TRUE),
                           ServiceCall("list_provisioned_model_throughputs",
                                       FALSE)>>,
          !.custom_model = [modelSummaries |-> custom],
          !.failed = "resolve",
          !.pc = NextPc("resolve", TRUE)]
    /\ WorkflowUnchanged

\* get_model_arn: both lists are answered.
ResolveModelArn ==
    /\ approval.pc = "resolve"
    /\ \E custom \in CustomModelAnswers, provisioned \in ProvisionedAnswers :
          LET r == MatchProvisioned(custom, provisioned) IN
          approval' = [approval EXCEPT
              !.calls = @ \o <<ServiceCall("list_custom_models", TRUE),
                               ServiceCall(
                                   "list_provisioned_model_throughputs",
                                   TRUE)>>,
              !.custom_model = [modelSummaries |-> custom],
              !.provisioned_models =
                  [provisionedModelSummaries |-> provisioned],
              !.model_id = IF IsRaised(r) THEN @ ELSE r.value,
              !.failed = IF IsRaised(r) THEN "resolve" ELSE @,
              !.pc = NextPc("resolve", IsRaised(r))]
    /\ WorkflowUnchanged

\* update_parameter: put_parameter with Value=model_id. The client refuses
\* a Value of None (ParamValidationError) and the service may answer with a
\* ClientError; either way the parameter keeps its value.
UpdateParameter ==
    /\ approval.pc = "update"
    /\ \E accepted \in BOOLEAN :
          LET ok == accepted /\ approval.model_id # "None" IN
          approval' = [approval EXCEPT
              !.calls = Append(@, ServiceCall("put_parameter", ok)),
              !.parameter = IF ok THEN approval.model_id ELSE @,
              !.failed = IF ok THEN @ ELSE "update",
              !.pc = NextPc("update", ~ok)]
    /\ WorkflowUnchanged

\* start_pipeline: start_pipeline_execution, answered or refused.
StartPipeline ==
    /\ approval.pc = "start"
    /\ \E ok \in BOOLEAN :
          approval' = [approval EXCEPT
              !.calls = Append(@, ServiceCall("start_pipeline_execution", ok)),
              !.pipeline =
                  IF ok THEN Append(@, [pipelineExecutionId |-> Len(@) + 1,
                                        parameter |-> approval.parameter])
                  ELSE @,
              !.failed = IF ok THEN @ ELSE "start",
              !.pc = NextPc("start", ~ok),
              !.result = IF ok THEN [statusCode |-> 200,
                                     body |-> Len(approval.pipeline) + 1]
                         ELSE @]
    /\ WorkflowUnchanged

ApprovalNext ==
    \/ ApprovalInvoke
    \/ ResolveListModelsError
    \/ ResolveListProvisionedError
    \/ ResolveModelArn
    \/ UpdateParameter
    \/ StartPipeline

ApprovalSpec == Init /\ [][ApprovalNext]_vars

----------------------------------------------------------------------------

Next ==
    \/ RouterInvoke
    \/ \E i \in 1..MaxExecutions : StartFineTuning(i)
    \/ \E i \in 1..MaxExecutions : StartRejected(i)
    \/ \E i \in 1..MaxExecutions : Wait(i)
    \/ \E i \in 1..MaxExecutions : GetTuningStatus(i)
    \/ \E i \in 1..MaxExecutions : PollError(i)
    \/ \E i \in 1..MaxExecutions : ReviewStatus(i)
    \/ \E i \in 1..MaxExecutions : Finalize(i)
    \/ \E i \in 1..MaxExecutions : FinalizeFetchError(i)
    \/ \E n \in JobNames : JobAdvance(n)

Spec == Init /\ [][Next]_vars

\* The scheduler keeps resuming every execution that can take a step.
FairSpec == Spec /\ \A i \in 1..MaxExecutions : WF_vars(ExecutionStep(i))

\* The delivery of one message of any pipeline execution.
SingleInvoke == Deliver(SingleBatches, MaxInstances, MaxInstances)

\* The messages of the pipeline executions, delivered one per invocation,
\* and the executions they start, running side by side.
InstancesNext ==
    \/ SingleInvoke
    \/ \E i \in 1..MaxInstances : StartFineTuning(i)
    \/ \E i \in 1..MaxInstances : StartRejected(i)
    \/ \E i \in 1..MaxInstances : Wait(i)
    \/ \E i \in 1..MaxInstances : GetTuningStatus(i)
    \/ \E i \in 1..MaxInstances : PollError(i)
    \/ \E i \in 1..MaxInstances : ReviewStatus(i)
    \/ \E i \in 1..MaxInstances : Finalize(i)
    \/ \E i \in 1..MaxInstances : FinalizeFetchError(i)
    \/ \E n \in JobNames : JobAdvance(n)

InstancesSpec == Init /\ [][InstancesNext]_vars

\* The requests of one pipeline execution, delivered one per invocation, and
\* the executions they start.
RequestNext ==
    \/ RequestInvoke
    \/ \E i \in 1..MaxRequests : StartFineTuning(i)
    \/ \E i \in 1..MaxRequests : StartRejected(i)
    \/ \E i \in 1..MaxRequests : Wait(i)
    \/ \E i \in 1..MaxRequests : GetTuningStatus(i)
    \/ \E i \in 1..MaxRequests : PollError(i)
    \/ \E i \in 1..MaxRequests : ReviewStatus(i)
    \/ \E i \in 1..MaxRequests : Finalize(i)
    \/ \E i \in 1..MaxRequests : FinalizeFetchError(i)
    \/ \E n \in JobNames : JobAdvance(n)

RequestSpec == Init /\ [][RequestNext]_vars

----------------------------------------------------------------------------
(* Properties *)

Executions == DOMAIN execs

Ended(i) == execs[i].state \in {"SUCCEEDED", "FAILED"}

\* The callback API calls execution i has made.
CallbacksOf(i) == {c \in callbacks : c.by = <<"execution", i>>}

\* The payload is a context with a status (not the None of a handler that
\* returned nothing).
HasStatus(i) == HasKey(execs[i].payload, "status")

\* Execution i has just been polled: its payload is the poller's result for
\* the raw state lastRaw.
Polled(i) == execs[i].state = "Review Status" /\ HasStatus(i)

FailureRaw == {"Failed", "Stopped", "Stopping"}

\* The submission of execution i succeeded and the provider reports a
\* terminal raw state for its job.
JobIsTerminal(i) ==
    /\ i \in Executions
    /\ execs[i].handle # "none"
    /\ jobs[execs[i].handle].status \in TerminalRaw

\* The context of execution i has a terminal status.
StatusIsTerminal(i) ==
    /\ i \in Executions
    /\ HasStatus(i)
    /\ execs[i].payload.status \in {"Completed", "Failed"}

\* A poll of execution i failed: the provider reported nothing.
PollFailed(i) ==
    /\ i \in Executions
    /\ execs[i].error = "check_status:get_model_customization_job"

\* C1: once the submission of an execution has succeeded and the provider
\* reports a terminal raw state for its job, the execution's status becomes
\* Completed or Failed (unless a poll itself fails with a ClientError).
C1_ReachesTerminalStatus ==
    \A i \in 1..MaxExecutions :
        JobIsTerminal(i) ~> (StatusIsTerminal(i) \/ PollFailed(i))

\* C2: no token is presented to the callback API more than once. (A second
\* call on a token is rejected, so it is a record of its own in callbacks.)
C2_TokenPresentedOnce ==
    \A t \in Tokens : Cardinality({c \in callbacks : c.token = t}) <= 1

\* The calls of the router's invocation that report the failure of record k
\* with the manual-stopping reason on the record's token.
StoppingCalls(k) ==
    {n \in DOMAIN router.calls :
        /\ router.calls[n].record = k
        /\ router.calls[n].api = "send_pipeline_execution_step_failure"
        /\ router.calls[n].input = [token |-> router.records[k].token,
                                    reason |-> StoppingReason]}

\* C3: when an invocation of the router ends without an exception, every
\* Stopping record of its batch, at any position, has had exactly one failure
\* callback with reason "Manual Stopping Behavior" on its token.
C3_EveryStoppingRecordReported ==
    router.pc \in {"returned", "finished"} =>
        \A k \in DOMAIN router.records :
            router.records[k].status = "Stopping" =>
                Cardinality(StoppingCalls(k)) = 1

\* C4: the router makes no start_execution call for a Stopping record, and an
\* invocation that starts an execution reached a record that is not Stopping.
C4_StoppingNeverStarts ==
    /\ \A n \in DOMAIN router.calls :
          router.calls[n].api = "start_execution" =>
              router.records[router.calls[n].record].status # "Stopping"
    /\ (\A k \in DOMAIN router.records :
            router.records[k].status = "Stopping") =>
          /\ router.pc # "returned"
          /\ \A n \in DOMAIN router.calls :
                router.calls[n].api # "start_execution"

\* C4 witness: an invocation has handled a Stopping record by a callback.
C4_Witness ==
    /\ router.pc = "finished"
    /\ \E k \in DOMAIN router.records : Cardinality(StoppingCalls(k)) = 1

\* C5: the status a poll returns is Failed for the raw states Failed, Stopped
\* and Stopping, Completed for Completed, and InProgress for every other one.
C5_PollerClassification ==
    \A i \in Executions :
        Polled(i) =>
            execs[i].payload.status =
                IF execs[i].lastRaw \in FailureRaw THEN "Failed"
                ELSE IF execs[i].lastRaw = "Completed" THEN "Completed"
                ELSE "InProgress"

\* C6: after a poll of an InProgress context that read a non-terminal raw
\* state the status is still InProgress and the execution has made no
\* callback; and the execution waits and polls with status InProgress only.
C6_NonTerminalKeepsPolling ==
    \A i \in Executions :
        /\ Polled(i) /\ execs[i].lastRaw \in NonTerminalRaw =>
              /\ execs[i].payload.status = "InProgress"
              /\ CallbacksOf(i) = {}
        /\ execs[i].state \in {"Wait", "Get Tuning Status"} =>
              /\ HasStatus(i)
              /\ execs[i].payload.status = "InProgress"
              /\ CallbacksOf(i) = {}

\* C7: an execution whose poll read Failed, Stopped or Stopping ends without
\* an exception, having made an accepted failure callback on its token. (The
\* failure of the re-fetch itself is set aside.)
C7_FailureHandledWithoutException ==
    \A i \in Executions :
        /\ execs[i].lastRaw \in FailureRaw
        /\ Ended(i)
        /\ execs[i].error # "finalize:get_model_customization_job"
        => /\ execs[i].state = "SUCCEEDED"
           /\ \E c \in CallbacksOf(i) :
                 /\ c.kind = "failure"
                 /\ c.token = execs[i].input.token
                 /\ c.accepted

\* C8: an execution whose poll read "Stopped" takes the failure path, and the
\* Finalizer's callback is a failure on the execution's token whose reason is
\* exactly "Model customization has been manually stopped"; the Finalizer
\* makes that call whenever the re-fetch of the job succeeds.
C8_StoppedReason ==
    \A i \in Executions :
        execs[i].lastRaw = "Stopped" =>
            /\ execs[i].state \in
                  {"Review Status", "Tuning Failed", "SUCCEEDED", "FAILED"}
            /\ Polled(i) => execs[i].payload.status = "Failed"
            /\ \A c \in CallbacksOf(i) :
                  /\ c.kind = "failure"
                  /\ c.token = execs[i].input.token
                  /\ c.reason = "Model customization has been manually stopped"
            /\ Ended(i) =>
                  \/ CallbacksOf(i) # {}
                  \/ execs[i].error = "finalize:get_model_customization_job"

\* C8 witness: the poll read Stopped and the Finalizer's callback was accepted.
C8_Witness ==
    \E i \in Executions :
        /\ execs[i].lastRaw = "Stopped"
        /\ execs[i].state = "SUCCEEDED"
        /\ \E c \in CallbacksOf(i) : c.accepted

SixOutputNames ==
    <<"OUTPUT_MODEL_NAME", "OUTPUT_MODEL_ARN", "JOB_NAME", "JOB_ARN",
      "BASE_MODEL_ARN", "OUTPUT_DATA">>

\* The values of the job description, in the order of SixOutputNames.
SixOutputValues(job) ==
    <<job.outputModelName, job.outputModelArn, job.jobName, job.jobArn,
      job.baseModelArn, job.outputS3Uri>>

\* C9: an execution whose poll read "Completed" takes the success path, and
\* the Finalizer's callback is one success callback on the execution's token
\* carrying the six named outputs in order, each with the non-empty value of
\* the job's description; the Finalizer makes that call whenever the re-fetch
\* of the job succeeds.
C9_CompletedOutputs ==
    \A i \in Executions :
        execs[i].lastRaw = "Completed" =>
            /\ execs[i].state \in
                  {"Review Status", "Tuning Complete", "SUCCEEDED", "FAILED"}
            /\ \A c \in CallbacksOf(i) :
                  /\ c.kind = "success"
                  /\ c.token = execs[i].input.token
                  /\ Len(c.outputs) = 6
                  /\ \A n \in 1..6 :
                        /\ c.outputs[n].Name = SixOutputNames[n]
                        /\ c.outputs[n].Value =
                              SixOutputValues(jobs[execs[i].handle])[n]
                        /\ c.outputs[n].Value # ""
            /\ Cardinality(CallbacksOf(i)) <= 1
            /\ Ended(i) =>
                  \/ CallbacksOf(i) # {}
                  \/ execs[i].error = "finalize:get_model_customization_job"

\* C9 witness: the poll read Completed and the success callback was accepted.
C9_Witness ==
    \E i \in Executions :
        /\ execs[i].lastRaw = "Completed"
        /\ execs[i].state = "SUCCEEDED"
        /\ \E c \in CallbacksOf(i) : c.kind = "success" /\ c.accepted

\* Execution i has returned from its first step and not yet polled.
JustSubmitted(i) ==
    /\ execs[i].state = "Wait"
    /\ execs[i].lastRaw = "none"

\* C10: the context returned for a Start context whose job the provider
\* accepted is the Start context with jobName and jobArn added, naming the job
\* the provider created, and with status InProgress.
C10_StartReturnsInProgress ==
    \A i \in Executions :
        JustSubmitted(i) =>
            LET ctx == execs[i].payload IN
            /\ DOMAIN ctx = (DOMAIN execs[i].input) \cup {"jobName", "jobArn"}
            /\ ctx.status = "InProgress"
            /\ ctx.parameters = execs[i].input.parameters
            /\ ctx.token = execs[i].input.token
            /\ jobs[ctx.jobName] # NoJob
            /\ ctx.jobName = jobs[ctx.jobName].jobName
            /\ ctx.jobArn = jobs[ctx.jobName].jobArn
            /\ execs[i].input.status = "Start"

\* C10 witness: an execution has submitted its job and holds the handle.
C10_Witness ==
    \E i \in Executions :
        /\ JustSubmitted(i)
        /\ execs[i].handle = execs[i].payload.jobName
        /\ jobs[execs[i].handle].status = "InProgress"

\* The submission of execution i was accepted: handle is the job's name.
Submitted(i) == execs[i].handle # "none"

\* C11: the job an execution submits is named exactly
\* <JOB_PREFIX>-TuningJob-<EXECUTION_ID> of its request; every request with
\* the same prefix and execution id, whatever its other fields, gets that
\* same name, and every request with the same prefix and another execution
\* id gets a different one.
C11_JobNameDerivation ==
    \A i \in Executions :
        Submitted(i) =>
            LET p == execs[i].input.parameters
                name == execs[i].handle
            IN  /\ name = p.JOB_PREFIX \o "-TuningJob-" \o p.EXECUTION_ID
                /\ jobs[name] # NoJob
                /\ jobs[name].jobName = name
                /\ \A q \in AllArguments :
                      q.JOB_PREFIX = p.JOB_PREFIX =>
                          (JobName(q) = name
                              <=> q.EXECUTION_ID = p.EXECUTION_ID)

\* C11 witness: the job of a request resubmitted with another epoch count
\* was accepted under the name "npc-TuningJob-e1".
C11_Witness ==
    \E i \in Executions :
        /\ Submitted(i)
        /\ execs[i].input.parameters.EPOCHS = "2"
        /\ execs[i].handle = "npc-TuningJob-e1"

\* The executions whose request carries execution id e and whose job the
\* provider created.
CreatedFor(e) ==
    {i \in Executions :
        Submitted(i) /\ execs[i].input.parameters.EXECUTION_ID = e}

\* C12: of the executions started for one execution id, at most one has its
\* job created, and the provider holds at most one job for the requests of
\* one execution id.
C12_OneJobPerExecutionId ==
    /\ \A e \in ExecutionIds : Cardinality(CreatedFor(e)) <= 1
    /\ Cardinality({n \in JobNames : jobs[n] # NoJob}) <= 1

\* C12 witness: two executions of the same execution id, the job of one
\* created and the submission of the other rejected.
C12_Witness ==
    \E i, j \in Executions :
        /\ i # j
        /\ execs[i].input.parameters.EXECUTION_ID
              = execs[j].input.parameters.EXECUTION_ID
        /\ Submitted(i)
        /\ execs[j].error = "create_model_customization_job"

\* C13: an invocation of the router on a message without "status" ends with
\* an exception and has made no API call: it starts no execution.
C13_StatuslessRejected ==
    (\E k \in DOMAIN router.records : ~HasKey(router.records[k], "status"))
        => /\ router.pc = "raised"
           /\ router.calls = <<>>

\* C14: an execution whose create-job call the provider rejected has failed
\* for good: it holds no job, its context is still the Start context it was
\* started with (never InProgress), and it has never polled.
C14_RejectedSubmissionAborts ==
    \A i \in Executions :
        execs[i].error = "create_model_customization_job" =>
            /\ execs[i].state = "FAILED"
            /\ ~Submitted(i)
            /\ execs[i].payload = execs[i].input
            /\ execs[i].payload.status = "Start"
            /\ execs[i].lastRaw = "none"

\* C14 witness: the provider has rejected the create-job call of an execution.
C14_Witness ==
    \E i \in Executions :
        /\ execs[i].error = "create_model_customization_job"
        /\ execs[i].state = "FAILED"

\* C15: an execution whose Finalizer presented a token the callback API
\* rejected has failed with the exception raised for that call, and has made
\* that one call only.
C15_ConsumedTokenSurfaces ==
    \A i \in Executions :
        \A c \in CallbacksOf(i) :
            ~c.accepted =>
                /\ execs[i].state = "FAILED"
                /\ execs[i].error = "send_pipeline_execution_step_" \o c.kind
                /\ CallbacksOf(i) = {c}

\* C15 witness: the Finalizer presented a token that the router's Stopping
\* callback had consumed.
C15_Witness ==
    \E i \in Executions :
        \E c \in CallbacksOf(i), d \in callbacks :
            /\ ~c.accepted
            /\ d.by = <<"router">>
            /\ d.token = c.token
            /\ d.accepted

\* The successful start_execution calls of the router's invocation for record
\* k whose input is status "Start" with the record's arguments and token.
StartCallsFor(k) ==
    {n \in DOMAIN router.calls :
        /\ router.calls[n].record = k
        /\ router.calls[n].api = "start_execution"
        /\ router.calls[n].ok
        /\ router.calls[n].input =
              [status |-> "Start",
               parameters |-> router.records[k].arguments,
               token |-> router.records[k].token]}

\* C16: when an invocation of the router ends without an exception, every
\* record of its batch that is not a Stopping message has had exactly one
\* execution started with status "Start" and the record's arguments and
\* token, and the invocation returns the identifier of a started execution.
C16_EveryRequestStarted ==
    router.pc \in {"returned", "finished"} =>
        \A k \in DOMAIN router.records :
            router.records[k].status # "Stopping" =>
                /\ Cardinality(StartCallsFor(k)) = 1
                /\ router.result = [statusCode |-> 200,
                                    body |-> ExecutionArn(Len(execs))]

\* C19: when an invocation of the router ends without an exception, it has
\* made one call per record of its batch, in record order: start_execution
\* for a record that is not Stopping, the failure callback for a Stopping one.
C19_EveryRecordHandledInOrder ==
    router.pc \in {"returned", "finished"} =>
        /\ Len(router.calls) = Len(router.records)
        /\ \A k \in DOMAIN router.calls :
              /\ router.calls[k].record = k
              /\ router.calls[k].api =
                    IF router.records[k].status = "Stopping"
                    THEN "send_pipeline_execution_step_failure"
                    ELSE "start_execution"

\* The status of a context, "None" for a payload without one.
StatusOf(payload) == Get(payload, "status")

\* The step changes the status of execution i from InProgress to another.
LeavesInProgress(i) ==
    /\ StatusOf(execs[i].payload) = "InProgress"
    /\ StatusOf(execs'[i].payload) # "InProgress"

\* C18: every step that takes the status of an execution out of InProgress
\* is the step of "Get Tuning Status", the poll: it reads the raw state the
\* provider holds for the execution's job at that moment, and the status
\* becomes Completed only for the raw state Completed and Failed only for
\* Failed, Stopped or Stopping.
C18_LeavesInProgressByPoll ==
    [][\A i \in DOMAIN execs :
          LeavesInProgress(i) =>
              /\ execs[i].state = "Get Tuning Status"
              /\ execs'[i].state = "Review Status"
              /\ execs'[i].lastRaw = jobs[execs[i].handle].status
              /\ StatusOf(execs'[i].payload) = "Completed"
                    => execs'[i].lastRaw = "Completed"
              /\ StatusOf(execs'[i].payload) = "Failed"
                    => execs'[i].lastRaw \in FailureRaw]_vars

\* C18 witness: a poll that read "Stopping" has just taken the status from
\* InProgress to Failed.
C18_Witness ==
    \E i \in Executions :
        /\ Polled(i)
        /\ execs[i].lastRaw = "Stopping"
        /\ execs[i].payload.status = "Failed"

\* C20: every change of the status of an execution is a step forward along
\* Start -> InProgress -> {Completed, Failed}.
C20_StatusMovesForward ==
    [][\A i \in DOMAIN execs :
          LET old == StatusOf(execs[i].payload)
              new == StatusOf(execs'[i].payload)
          IN  old # new =>
                  \/ old = "Start" /\ new = "InProgress"
                  \/ old = "InProgress" /\ new \in {"Completed", "Failed"}]_vars

\* C17: the last request each API has answered got HTTP status 200 if its
\* body has a "question".
C17_QuestionAnswered200 ==
    \A h \in {"text", "rag"} :
        (api[h] # NoRequest /\ HasKey(api[h].request, "question"))
            => HttpStatus(api[h].result) = 200

\* C21: an execution enters "Get Tuning Status" (the poll) from "Wait" only,
\* enters "Wait" only from a handler invocation's outcome ("Start
\* Fine-tuning", or "Review Status" after a poll), and leaves the poll for
\* "Review Status" or by failing: one wait before every poll, the first one
\* included, and no two polls without a wait between them.
C21_WaitBeforeEveryPoll ==
    [][\A i \in DOMAIN execs :
          LET from == execs[i].state
              to == execs'[i].state
          IN  from # to =>
                  /\ to = "Get Tuning Status" => from = "Wait"
                  /\ from = "Wait" => to = "Get Tuning Status"
                  /\ to = "Wait" =>
                        from \in {"Start Fine-tuning", "Review Status"}
                  /\ from = "Get Tuning Status" =>
                        to \in {"Review Status", "FAILED"}]_vars

\* C21 witness: an execution that has polled once has waited again and is
\* about to poll a second time.
C21_Witness ==
    \E i \in Executions :
        /\ execs[i].state = "Get Tuning Status"
        /\ execs[i].lastRaw = "InProgress"
        /\ execs[i].payload.status = "InProgress"

\* C22: an execution whose job was accepted and whose polls, none of which
\* failed, have read non-terminal raw states only has not ended and has made
\* no callback.
C22_NonTerminalNeverEnds ==
    \A i \in Executions :
        /\ Submitted(i)
        /\ execs[i].lastRaw \in {"none"} \cup NonTerminalRaw
        /\ ~PollFailed(i)
        => /\ ~Ended(i)
           /\ CallbacksOf(i) = {}

\* C23: an execution that has made a callback has ended and has made that
\* one callback only, and an execution that has ended takes no further step:
\* its record and the callbacks it has made stay as they are.
C23_EndsAfterFinalizer ==
    [][\A i \in DOMAIN execs :
          LET made == {c \in callbacks : c.by = <<"execution", i>>}
              makes == {c \in callbacks' : c.by = <<"execution", i>>}
          IN  /\ makes # {} =>
                    /\ execs'[i].state \in {"SUCCEEDED", "FAILED"}
                    /\ Cardinality(makes) = 1
              /\ execs[i].state \in {"SUCCEEDED", "FAILED"} =>
                    /\ execs'[i] = execs[i]
                    /\ makes = made]_vars

\* C23 witness: the Finalizer of an execution has completed: its callback
\* was accepted and the execution has succeeded.
C23_Witness ==
    \E i \in Executions :
        /\ execs[i].state = "SUCCEEDED"
        /\ \E c \in CallbacksOf(i) :
              c.accepted /\ c.token = execs[i].input.token

\* The parameters and token of a context are those the router placed in the
\* execution input, and its jobName and jobArn, once the job is submitted,
\* those of the job the provider created under the execution's handle.
FrameHolds(ctx, exec) ==
    /\ ctx.parameters = exec.input.parameters
    /\ ctx.token = exec.input.token
    /\ exec.handle # "none" =>
          /\ ctx.jobName = exec.handle
          /\ ctx.jobArn = JobArn(exec.handle)

HandlesStopping ==
    /\ deliveries' # deliveries
    /\ \E x \in DOMAIN router'.records :
          Get(router'.records[x], "status") = "Stopping"

\* C26: an invocation of the router that handles a Stopping message leaves
\* every execution there is unchanged, in context and in position, and
\* leaves every job of the provider in the raw state it was in.
C26_StoppingLeavesInstances ==
    [][HandlesStopping =>
          /\ \A i \in DOMAIN execs : execs'[i] = execs[i]
          /\ jobs' = jobs]_vars

\* C26 witness: the router has reported the failure of the token of an
\* execution that is waiting with its job in progress.
C26_Witness ==
    /\ router.pc = "finished"
    /\ \E i \in Executions, c \in callbacks :
          /\ c.by = <<"router">>
          /\ c.accepted
          /\ c.token = execs[i].input.token
          /\ execs[i].state = "Wait"
          /\ Submitted(i)
          /\ jobs[execs[i].handle].status = "InProgress"

\* C27: a success callback of an execution is made with the context status
\* Completed, after a poll that read the raw state Completed; an execution
\* whose poll read Failed, Stopped or Stopping makes no success callback; and
\* an execution makes at most one callback.
C27_SuccessOnlyForCompleted ==
    \A i \in Executions :
        /\ \A c \in CallbacksOf(i) :
              c.kind = "success" =>
                  /\ execs[i].payload.status = "Completed"
                  /\ execs[i].lastRaw = "Completed"
        /\ execs[i].lastRaw \in FailureRaw =>
              \A c \in CallbacksOf(i) : c.kind = "failure"
        /\ Cardinality(CallbacksOf(i)) <= 1

\* C27 witness: an execution whose poll read "Failed" has finalized with a
\* failure callback.
C27_Witness ==
    \E i \in Executions :
        /\ execs[i].lastRaw = "Failed"
        /\ Ended(i)
        /\ \E c \in CallbacksOf(i) : c.kind = "failure" /\ c.accepted

\* C28: an execution whose submission the provider rejected has ended and
\* has made no callback: neither its handler nor its state machine has
\* called the callback API. (An execution started by a second delivery of
\* the same message makes its own calls with the same token.)
C28_SubmissionFailureUnreported ==
    \A i \in Executions :
        execs[i].error = "create_model_customization_job" =>
            /\ Ended(i)
            /\ CallbacksOf(i) = {}

\* C28 witness: an execution whose submission was rejected has failed while
\* the callback API has seen no call at all.
C28_Witness ==
    \E i \in Executions :
        /\ execs[i].error = "create_model_customization_job"
        /\ execs[i].state = "FAILED"
        /\ callbacks = {}

KnownStatuses == {"Start", "InProgress", "Completed", "Failed"}

\* C29: a step of "Get Tuning Status" on a context whose status is none of
\* Start, InProgress, Completed and Failed reads nothing from the provider,
\* changes no job and makes no callback, and hands None to "Review Status";
\* and the step of "Review Status" on a payload without a status fails the
\* execution with States.Runtime.
C29_UnknownStatusReturnsNone ==
    [][\A i \in DOMAIN execs :
          execs'[i] # execs[i] =>
              /\ (/\ execs[i].state = "Get Tuning Status"
                  /\ StatusOf(execs[i].payload) \notin KnownStatuses) =>
                    /\ execs'[i].payload = PyNone
                    /\ execs'[i].state = "Review Status"
                    /\ execs'[i].lastRaw = execs[i].lastRaw
                    /\ execs'[i].error = "none"
                    /\ jobs' = jobs
                    /\ callbacks' = callbacks
              /\ (/\ execs[i].state = "Review Status"
                  /\ ~HasKey(execs[i].payload, "status")) =>
                    /\ execs'[i].state = "FAILED"
                    /\ execs'[i].error = "States.Runtime"]_vars

\* C29 witness: the handler has returned None for a context with the status
\* "InService", and "Review Status" holds a payload without a status.
C29_Witness ==
    \E i \in Executions :
        /\ execs[i].state = "Review Status"
        /\ execs[i].payload = PyNone
        /\ execs[i].lastRaw = "InService"

----------------------------------------------------------------------------
(* The model-approval handler *)

ApprovalCalls == [x \in DOMAIN approval.calls |-> approval.calls[x].api]

HandlerOrder ==
    <<"list_custom_models", "list_provisioned_model_throughputs",
      "put_parameter", "start_pipeline_execution">>

Called(name) == \E x \in DOMAIN approval.calls : approval.calls[x].api = name

Succeeded(name) ==
    \E x \in DOMAIN approval.calls :
        approval.calls[x].api = name /\ approval.calls[x].ok

\* C30: the model-approval handler resolves the provisioned model's ARN,
\* then updates the parameter, then starts the pipeline: the calls of an
\* invocation are a prefix of this order, the parameter is written only
\* with an ARN that was resolved, the pipeline is started only after the
\* parameter was written with that ARN, and a step that fails is the
\* invocation's last: no call follows a failed call, and an invocation that
\* failed resolving has written no parameter and one that failed before the
\* start has started no pipeline.
C30_ApprovalStepsInOrder ==
    /\ Len(approval.calls) <= Len(HandlerOrder)
    /\ ApprovalCalls = SubSeq(HandlerOrder, 1, Len(approval.calls))
    /\ \A x \in DOMAIN approval.calls :
          ~approval.calls[x].ok =>
              x = Len(approval.calls) /\ approval.pc = "raised"
    /\ Succeeded("put_parameter") =>
          /\ approval.model_id # "None"
          /\ approval.parameter = approval.model_id
    /\ Succeeded("start_pipeline_execution") =>
          /\ Succeeded("put_parameter")
          /\ approval.pipeline[Len(approval.pipeline)].parameter =
                approval.model_id
    /\ approval.failed = "resolve" =>
          approval.pc = "raised" /\ ~Called("put_parameter")
    /\ approval.failed \in {"resolve", "update"} =>
          approval.pc = "raised" /\ ~Called("start_pipeline_execution")
    /\ approval.pc = "returned" <=> Succeeded("start_pipeline_execution")

\* A second invocation failed updating the parameter after a first one had
\* started the pipeline: it has started no pipeline of its own.
C30_Witness ==
    /\ approval.invocations = 2
    /\ approval.failed = "update"
    /\ approval.pc = "raised"
    /\ Len(approval.pipeline) = 1

====
